---------------------------- MODULE Spec2Model ----------------------------
(***************************************************************************)
(* Music Dodge: the audio-driven spawn engine (Game.spawn_logic), the      *)
(* obstacle field (ObstacleManager) and the player lane (Player), as one   *)
(* state machine over the tick loop of Game.run.                           *)
(*                                                                         *)
(* Units.  Times are integer milliseconds.  x positions are integer        *)
(* pixels; the frame times drawn are multiples of 10 ms, so the distance   *)
(* OBSTACLE_SPEED * dt of one update is a whole number of pixels.  The     *)
(* source compares arrival times in float seconds, (x - PLAYER_X) /        *)
(* OBSTACLE_SPEED; the model compares the same quantities exactly, cross   *)
(* multiplied.  The player's interpolated y is kept in 1/1000 pixel.       *)
(*                                                                         *)
(* A run is explored under an input profile (env): the ratios the analyzed *)
(* song can show, the random draws and the key events that are enumerated. *)
(* Spec, SpecLoud and SpecLow run the tick loop of Game.run under three    *)
(* profiles; SpecField drives ObstacleManager alone, method by method.     *)
(*                                                                         *)
(* config.py is not among the sources; the constants are those of the      *)
(* Config block of one_file_version.py.                                    *)
(***************************************************************************)
EXTENDS Integers, Sequences, FiniteSets

\* ------------------------------------------------------------------ Config
SCREEN_W == 800
SCREEN_H == 600
LANES == 10
LANE_HEIGHT == SCREEN_H \div LANES
PLAYER_X == 100
OBSTACLE_SPEED == 300
SPAWN_AHEAD_PIXELS == 900
WINDOW_MS == 100
ENERGY_BASELINE_BUFFER == 50

\* thresholds on energy / baseline, in hundredths
LOW_TH == 105
MEDIUM_TH == 150
HIGH_TH == 220

LOW_SIZES == <<1, 1, 2>>
MEDIUM_SIZES == <<2, 3>>
HIGH_SIZES == <<4, 5, 6>>

MIN_SPAWN_INTERVAL_MS == 150
HEAVY_COOLDOWN_MS == 600

\* literals of the sources
OB_WIDTH == 40            \* Obstacle.__init__, width_px
PLAYER_W == 40            \* Player.width
PLAYER_HEIGHT == (LANE_HEIGHT * 8) \div 10   \* int(LANE_HEIGHT * 0.8)
NEVER_MS == -10000        \* ObstacleManager.last_spawn_ms / last_heavy_ms
STREAK_CAP == 4           \* min(recent_high_count + 1, 4)
TRIALS == 8               \* for _ in range(8)
SLICE_TENTHS == 6         \* abs(t_o - t_new) < 0.6
BORED_TENTHS == 4         \* abs((o.x - x_pos) / OBSTACLE_SPEED) < 0.4
SHIFT_TENTHS == 6         \* int(OBSTACLE_SPEED * 0.6)
INACTIVE_MS == 500        \* inactive_time > 500
QUIET_MS == 400           \* quiet_time > 400
NEAR_AHEAD == 200         \* PLAYER_X < o.x < SCREEN_W + 200
OFFSCREEN == -50          \* o.x + o.width > -50
CLOSE_LANES == 1          \* dist <= 1

\* ------------------------------------------------------------------ bounds
\* song lengths, in analysis windows: the tick loop ends when playback does
ShortSong == 6
LongSong == 8
LowSong == 8
BoredSong == 13
RunSong == 61
\* key presses handled during one run
MaxKeys == 1
\* obstacles the field may hold; a spawn beyond it is not explored
MaxObstacles == 5
\* the same for SpecStall, whose field holds the dozen boredom obstacles that
\* are on their way across the screen at any time
StallObstacles == 13
\* obstacles spawned by a run of SpecField
MaxFieldSpawns == 2
\* move_up / move_down calls of SpecPlayer
MaxMoves == 6

\* sample buffers of SpecAudio: every buffer of up to MaxShort samples, and
\* patterned buffers of ENERGY_BASELINE_BUFFER .. + MaxOver samples
MaxShort == 3
MaxOver == 3
\* sample values, before normalisation
AmpChoices == {-2, 0, 1}
\* frame rates (Hz) of the decoded audio
RateChoices == {10, 20, 30}
\* the sample buffers
SampleBuffers ==
    UNION {[1..n -> AmpChoices] : n \in 0..MaxShort}
    \cup {[i \in 1..n |-> IF i % p = 0 THEN a ELSE b] :
             n \in ENERGY_BASELINE_BUFFER..(ENERGY_BASELINE_BUFFER + MaxOver),
             p \in {2, 3, 7}, a \in AmpChoices, b \in AmpChoices}
\* timestamps (ms) asked of get_window_index_for_ms by SpecAudio
QueryMs == {-250, -100, -1, 0, 99, 100, 250, 5199, 5200, 5299, 5300, 9000}

\* frame times (ms) delivered by the frame clock to the tick loop
DtChoices == {100, 150}
\* frame times (ms) of SpecRun, a run on a machine that manages 3 frames a
\* second: long enough for obstacles to cross the screen
RunDtChoices == {300}
\* frame times (ms) of SpecStall, a run on a machine that stalls for more
\* than half a second in every frame
StallDtChoices == {550}
\* frame times (ms) given to ObstacleManager.update by SpecField
FieldDtChoices == {200, 1000}
\* distances OBSTACLE_SPEED * dt (px) of the updates of SpecPrune
PruneMoveChoices == {290, 300}
\* SpecCollide: lane spans, whole pixels and tenths of a pixel of x of the
\* obstacles given to check_collision
CollideSpans == {<<4, 1>>, <<4, 2>>, <<5, 3>>, <<0, 6>>}
CollideX == {59, 60, 61, 100, 139, 140}
CollideFrac == {0, 5}
\* (lane_start, lane_count) given to ObstacleManager.spawn by SpecField
FieldSpawnChoices == {<<4, 2>>, <<0, 5>>}

\* Input profiles.  ratios: energy / baseline (hundredths) a window may have;
\* hits: outcomes of np.random.rand() < 0.05; sizes: lane counts
\* np.random.choice may return; starts: lane starts np.random.randint may
\* return; events: key events of a frame; ticks0: wall-clock ms between
\* pygame.init() and the start of playback; cap: the obstacles the field may
\* hold.
EnvAll ==
    [ratios |-> {100, 105, 150, 220}, hits |-> BOOLEAN, sizes |-> {1, 3, 5},
     starts |-> {0, 6}, events |-> {"none"}, ticks0 |-> {0},
     cap |-> MaxObstacles]

EnvLoud ==
    [ratios |-> {100, 220}, hits |-> {FALSE}, sizes |-> {1, 3, 5, 6},
     starts |-> {0, 6, 9}, events |-> {"none"}, ticks0 |-> {0},
     cap |-> MaxObstacles]

EnvLow ==
    [ratios |-> {105}, hits |-> {FALSE}, sizes |-> {1},
     starts |-> {9}, events |-> {"none", "up", "down"}, ticks0 |-> {0},
     cap |-> MaxObstacles]

\* a song quiet enough for the boredom part to spawn twice
EnvBored ==
    [ratios |-> {100, 105}, hits |-> {FALSE}, sizes |-> {1},
     starts |-> {9}, events |-> {"none"}, ticks0 |-> {0},
     cap |-> MaxObstacles]

\* a quiet song whose energy-driven obstacles are one lane wide, in the lane
\* above the player's
EnvRun ==
    [ratios |-> {100, 105}, hits |-> {FALSE}, sizes |-> {1},
     starts |-> {4}, events |-> {"none"}, ticks0 |-> {0},
     cap |-> MaxObstacles]

\* a song that is loud at every tick
EnvStall ==
    [ratios |-> {220}, hits |-> {FALSE}, sizes |-> {1, 3, 6},
     starts |-> {0, 6, 9}, events |-> {"none"}, ticks0 |-> {0},
     cap |-> StallObstacles]

VARIABLES
    env,                    \* the input profile of the run
    num_windows,            \* AudioAnalyzer.num_windows
    analyzer,               \* AudioAnalyzer under construction (SpecAudio)
    now,                    \* current_ms of the tick in progress (music position)
    dtms,                   \* dt of the tick in progress, in ms
    start_ticks,            \* Game.start_ticks
    running,                \* Game.running
    pc,                     \* position in the loop body of Game.run
    ratio,                  \* energy[idx] / baseline[idx] of the window last read
    lane, target_lane, y,   \* Player
    last_lane_change_ms,    \* Player.last_lane_change_ms
    last_obstacle_near_ms,  \* Game.last_obstacle_near_ms
    recent_high_count,      \* Game.recent_high_count
    score,                  \* Game.score, in ms (1 point per second)
    obstacles_dodged,       \* Game.obstacles_dodged
    collided,               \* the tick found a collision
    obstacles,              \* ObstacleManager.obstacles
    last_spawn_ms,          \* ObstacleManager.last_spawn_ms
    last_heavy_ms,          \* ObstacleManager.last_heavy_ms
    ev,                     \* history: what the audio-driven part did this tick
    nextId,                 \* history: serial number of the next obstacle
    keys,                   \* history: key presses handled so far
    call                    \* history: the last ObstacleManager call of SpecField

vars == <<env, num_windows, analyzer, now, dtms, start_ticks, running, pc,
          ratio, lane, target_lane, y, last_lane_change_ms, last_obstacle_near_ms,
          recent_high_count, score, obstacles_dodged, collided, obstacles,
          last_spawn_ms, last_heavy_ms, ev, nextId, keys, call>>

constVars == <<env, num_windows, analyzer, start_ticks>>
clockVars == <<now, dtms>>
playerVars == <<lane, target_lane, y, last_lane_change_ms>>
managerVars == <<obstacles, last_spawn_ms, last_heavy_ms>>
gameVars == <<running, last_obstacle_near_ms, recent_high_count, score,
              obstacles_dodged, collided>>

\* ----------------------------------------------------------------- helpers
Abs(n) == IF n < 0 THEN -n ELSE n
Min(a, b) == IF a < b THEN a ELSE b
Max(a, b) == IF a > b THEN a ELSE b
Range(s) == {s[i] : i \in 1..Len(s)}
Px(n) == n * 1000

clamp(v, a, b) == Max(a, Min(b, v))

\* ------------------------------------------------------------------ Player
lane_to_y(l) == Px(l * LANE_HEIGHT + LANE_HEIGHT \div 2 - PLAYER_HEIGHT \div 2)

\* move_up without the clamp
MoveUpUnclamped(t) == t - 1

move_up(t) == clamp(t - 1, 0, LANES - 1)

move_down(t) == clamp(t + 1, 0, LANES - 1)

\* Player.update with the target lane tl and the wall clock at ticks:
\* <<lane, y, last_lane_change_ms>> after the call
PlayerUpdate(tl, ticks) ==
    LET target_y == lane_to_y(tl)
        dy == target_y - y
    IN  IF Abs(dy) < Px(1)
        THEN <<tl, target_y, IF tl # lane THEN ticks ELSE last_lane_change_ms>>
        ELSE <<lane,
               IF dy >= 0 THEN y + (dy * 4) \div 10 ELSE y - ((-dy) * 4) \div 10,
               last_lane_change_ms>>

\* --------------------------------------------------------------- Obstacles
SpawnX == SCREEN_W + SPAWN_AHEAD_PIXELS

Obstacle(lane_start, lane_count, x_pos, id, kind, t) ==
    [lane_start |-> lane_start, lane_count |-> lane_count, x |-> x_pos,
     passed |-> FALSE,
     \* history, not fields of the source; x_prev is x as the previous tick
     \* left it (the spawn x for an obstacle of this tick)
     id |-> id, kind |-> kind, born |-> t, hits |-> 0, x_prev |-> x_pos]

Span(o) == o.lane_start .. (o.lane_start + o.lane_count - 1)

\* |(xa - PLAYER_X)/OBSTACLE_SPEED - (xb - PLAYER_X)/OBSTACLE_SPEED| < tenths/10
ArrivalWithin(xa, xb, tenths) ==
    Abs((xa - PLAYER_X) - (xb - PLAYER_X)) * 10 < tenths * OBSTACLE_SPEED


\* lanes marked in blocks by the obstacles whose arrival time is within 0.6 s
\* of that of an obstacle at x_pos (spawn_logic, the loop over obstacles)
SliceLanes(obs, x_pos) ==
    {l \in 0..(LANES - 1) :
        \E i \in 1..Len(obs) :
            /\ ArrivalWithin(obs[i].x, x_pos, SLICE_TENTHS)
            /\ l \in Span(obs[i])}

\* the lanes with blocks[l] = 1 at the end of one placement trial
Blocks(obs, start, lane_count) ==
    SliceLanes(obs, SpawnX) \cup (start .. (start + lane_count - 1))

\* a placement that accepts every trial, whatever the slice holds
TrialOpenAlways(obs, start, lane_count) == TRUE

\* "if 0 in blocks"
TrialOpen(obs, start, lane_count) ==
    \E l \in 0..(LANES - 1) : l \notin Blocks(obs, start, lane_count)

\* a placement that takes the first draw, open or not
PlaceFirstDraw(trials, obs, lane_count) == Head(trials)

\* the placement loop over the drawn starts: the first open start, or -1
\* when no trial is open (placed stays False)
RECURSIVE Place(_, _, _)
Place(trials, obs, lane_count) ==
    IF trials = <<>> THEN -1
    ELSE IF TrialOpen(obs, Head(trials), lane_count) THEN Head(trials)
    ELSE Place(Tail(trials), obs, lane_count)

\* the starts the placement loop has tried when it ends: the draws up to and
\* including the first open one
RECURSIVE Tried(_, _, _)
Tried(trials, obs, lane_count) ==
    IF trials = <<>> THEN {}
    ELSE IF TrialOpen(obs, Head(trials), lane_count) THEN {Head(trials)}
    ELSE {Head(trials)} \cup Tried(Tail(trials), obs, lane_count)

\* a start drawn over all lanes, whatever the lane count
StartRangeAllLanes(lane_count) == 0 .. (LANES - 1)

\* np.random.randint(0, LANES - lane_count + 1)
StartRange(lane_count) == 0 .. (LANES - lane_count)

\* a classification whose medium and low branches keep the streak
ClassifyKeepStreak(r, streak, hit) ==
    IF r >= HIGH_TH
    THEN [tier |-> IF streak = 0 THEN "high"
                   ELSE IF streak = 1 THEN "medium" ELSE "low",
          streak |-> Min(streak + 1, STREAK_CAP)]
    ELSE IF r >= MEDIUM_TH THEN [tier |-> "medium", streak |-> streak]
    ELSE IF r >= LOW_TH THEN [tier |-> "low", streak |-> streak]
    ELSE IF hit THEN [tier |-> "low", streak |-> streak]
    ELSE [tier |-> "none", streak |-> streak]

\* a classification whose streak grows without the cap
ClassifyNoCap(r, streak, hit) ==
    IF r >= HIGH_TH
    THEN [tier |-> IF streak = 0 THEN "high"
                   ELSE IF streak = 1 THEN "medium" ELSE "low",
          streak |-> streak + 1]
    ELSE IF r >= MEDIUM_TH THEN [tier |-> "medium", streak |-> 0]
    ELSE IF r >= LOW_TH THEN [tier |-> "low", streak |-> 0]
    ELSE IF hit THEN [tier |-> "low", streak |-> 0]
    ELSE [tier |-> "none", streak |-> streak]

\* a classification whose 5% draw always hits
ClassifyAlwaysHit(r, streak, hit) ==
    IF r >= HIGH_TH
    THEN [tier |-> IF streak = 0 THEN "high"
                   ELSE IF streak = 1 THEN "medium" ELSE "low",
          streak |-> Min(streak + 1, STREAK_CAP)]
    ELSE IF r >= MEDIUM_TH THEN [tier |-> "medium", streak |-> 0]
    ELSE [tier |-> "low", streak |-> 0]

\* the tier before the heavy cooldown, and the streak after the tick
\* (the chain if ratio >= HIGH_TH / MEDIUM_TH / LOW_TH / else); hit is the
\* outcome of np.random.rand() < 0.05.  tier "none" is the early return.
Classify(r, streak, hit) ==
    IF r >= HIGH_TH
    THEN [tier |-> IF streak = 0 THEN "high"
                   ELSE IF streak = 1 THEN "medium" ELSE "low",
          streak |-> Min(streak + 1, STREAK_CAP)]
    ELSE IF r >= MEDIUM_TH THEN [tier |-> "medium", streak |-> 0]
    ELSE IF r >= LOW_TH THEN [tier |-> "low", streak |-> 0]
    ELSE IF hit THEN [tier |-> "low", streak |-> 0]
    ELSE [tier |-> "none", streak |-> streak]

\* a cooldown that never downgrades
CooldownOff(tier, t, heavy) == tier

\* if tier == 'high' and (current_ms - last_heavy_ms) < HEAVY_COOLDOWN_MS
Cooldown(tier, t, heavy) ==
    IF tier = "high" /\ (t - heavy) < HEAVY_COOLDOWN_MS THEN "medium" ELSE tier

\* lane counts drawn from all three lists, whatever the tier
SizesAnyTier(tier) ==
    Range(LOW_SIZES) \cup Range(MEDIUM_SIZES) \cup Range(HIGH_SIZES)

\* the lane counts np.random.choice may return for a tier
Sizes(tier) ==
    IF tier = "low" THEN Range(LOW_SIZES)
    ELSE IF tier = "medium" THEN Range(MEDIUM_SIZES)
    ELSE Range(HIGH_SIZES)

\* ObstacleManager.spawn: <<obstacles, last_spawn_ms, last_heavy_ms>> after
ManagerSpawn(obs, heavy, lane_start, lane_count, t, id) ==
    <<Append(obs, Obstacle(lane_start, lane_count, SpawnX, id, "energy", t)),
      t,
      IF lane_count >= 4 THEN t ELSE heavy>>

\* ----------------------------------------------------------- AudioAnalyzer
\* int(a / b) for b > 0: the quotient, truncated toward zero
IntDiv(a, b) == IF a >= 0 THEN a \div b ELSE -((-a) \div b)

\* int(math.ceil(a / float(b))) for a >= 0, b > 0
CeilDiv(a, b) == (a + b - 1) \div b

\* int(sample_rate * (window_ms / 1000.0))
SamplesPerWindow(sample_rate, window_ms) == (sample_rate * window_ms) \div 1000

\* np.max(np.abs(samples)) or 1.0, for a buffer that is not empty
MaxAbs(samples) ==
    LET m == CHOOSE v \in {Abs(samples[k]) : k \in 1..Len(samples)} :
                 \A k \in 1..Len(samples) : Abs(samples[k]) <= v
    IN  IF m = 0 THEN 1 ELSE m

\* max(1, ceil(len(samples) / samples_per_window))
NumWindows(len, spw) == Max(1, CeilDiv(len, spw))

\* samples[start:end] of window i (from 0); a slice stops at the buffer's end
Window(samples, i, spw) ==
    SubSeq(samples, i * spw + 1, Min((i + 1) * spw, Len(samples)))

RECURSIVE SumSq(_)
SumSq(w) == IF w = <<>> THEN 0 ELSE Head(w) * Head(w) + SumSq(Tail(w))

\* Energies are kept as whole numbers: the unit is 1 / (ENERGY_SCALE *
\* maxv^2), ENERGY_SCALE a common multiple of the window lengths, so that
\* np.sum(window * window) / len(window) of the normalised samples is exact.
\* The 1e-9 added to len(window) only matters for an empty window, whose
\* energy is 0 / 1e-9 = 0.
ENERGY_SCALE == 6

WindowEnergy(w) ==
    IF w = <<>> THEN 0 ELSE (SumSq(w) * ENERGY_SCALE) \div Len(w)

\* _compute_energy
compute_energy(samples, nw, spw) ==
    [i \in 1..nw |-> WindowEnergy(Window(samples, i - 1, spw))]

\* the loop with the queue popped one entry early (len(dq) >= N)
RECURSIVE BaselineLoopEarlyPop(_, _, _, _, _)
BaselineLoopEarlyPop(energy, i, dq, cum, out) ==
    IF i > Len(energy) THEN out
    ELSE LET dq1 == Append(dq, energy[i])
             cum1 == cum + energy[i]
             pop == Len(dq1) >= ENERGY_BASELINE_BUFFER
             dq2 == IF pop THEN Tail(dq1) ELSE dq1
             cum2 == IF pop THEN cum1 - Head(dq1) ELSE cum1
         IN  BaselineLoopEarlyPop(energy, i + 1, dq2, cum2,
                                  Append(out, [sum |-> cum2, n |-> Len(dq2)]))

\* the loop of _compute_running_baseline from window i on: dq and cum are
\* the queue and the running sum, out the baseline so far.  A baseline entry
\* cum / len(dq) (+ 1e-9) is kept as the fraction [sum, n].
RECURSIVE BaselineLoop(_, _, _, _, _)
BaselineLoop(energy, i, dq, cum, out) ==
    IF i > Len(energy) THEN out
    ELSE LET dq1 == Append(dq, energy[i])
             cum1 == cum + energy[i]
             pop == Len(dq1) > ENERGY_BASELINE_BUFFER
             dq2 == IF pop THEN Tail(dq1) ELSE dq1
             cum2 == IF pop THEN cum1 - Head(dq1) ELSE cum1
         IN  BaselineLoop(energy, i + 1, dq2, cum2,
                          Append(out, [sum |-> cum2, n |-> Len(dq2)]))

\* _compute_running_baseline
compute_running_baseline(energy) == BaselineLoop(energy, 1, <<>>, 0, <<>>)

\* the index without the clamp
WindowIndexUnclamped(ms) == IntDiv(ms, WINDOW_MS)

\* get_window_index_for_ms: clamp(int(ms / ms_per_window), 0, num_windows - 1)
get_window_index_for_ms(ms) ==
    clamp(IntDiv(ms, WINDOW_MS), 0, num_windows - 1)

\* The ratios window idx can have.  baseline[i] is the mean of the at most
\* i + 1 energies up to window i plus 1e-9 (_compute_running_baseline), so
\* energy[0] / baseline[0] < 1 and energy[i] / baseline[i] <= i + 1.
RatiosAt(idx) ==
    IF idx = 0 THEN {r \in env.ratios : r < 100}
    ELSE {r \in env.ratios : r <= (idx + 1) * 100}

\* no analyzer under construction: the game specifications take the song
\* as its number of windows and the ratios of env
AnalyzerOff ==
    [pc |-> "off", samples |-> <<>>, sample_rate |-> 0, maxv |-> 0,
     samples_per_window |-> 0, energy |-> <<>>, baseline |-> <<>>]

EvNone ==
    [gate |-> FALSE, tier |-> "none", final |-> "none", old |-> 0,
     hit |-> FALSE, lane_count |-> 0, tried |-> {}]

\* -------------------------------------------------------------------- Init
\* Game.__init__, Player.__init__, ObstacleManager.__init__ and Game.start
\* InitState: the same with the player at rest in lane l and the field obs
InitState(e, nw, at, l, obs) ==
    /\ env = e
    /\ num_windows = nw
    /\ analyzer \in IF at = "audio"
                     THEN {[AnalyzerOff EXCEPT !.pc = "load", !.samples = b,
                                               !.sample_rate = r] :
                              b \in SampleBuffers, r \in RateChoices}
                     ELSE {AnalyzerOff}
    /\ now = 0
    /\ dtms = 0
    /\ start_ticks \in e.ticks0
    /\ running = TRUE
    /\ pc = at
    /\ ratio = 0
    /\ lane = l
    /\ target_lane = l
    /\ y = lane_to_y(l)
    /\ last_lane_change_ms = 0
    /\ last_obstacle_near_ms = 0
    /\ recent_high_count = 0
    /\ score = 0
    /\ obstacles_dodged = 0
    /\ collided = FALSE
    /\ obstacles = obs
    /\ last_spawn_ms = NEVER_MS
    /\ last_heavy_ms = NEVER_MS
    /\ ev = EvNone
    /\ nextId = Len(obs) + 1
    /\ keys = 0
    /\ call = [op |-> "none", arg |-> 0, ret |-> 0]

InitWith(e, nw, at) == InitState(e, nw, at, LANES \div 2, <<>>)

Init == InitWith(EnvAll, ShortSong, "tick")

InitLoud == InitWith(EnvLoud, LongSong, "tick")

InitLow == InitWith(EnvLow, LowSong, "tick")

InitBored == InitWith(EnvBored, BoredSong, "tick")

InitRun == InitWith(EnvRun, RunSong, "tick")

InitStall == InitWith(EnvStall, ShortSong, "tick")

\* ------------------------------------------------------ Game.run, per tick
\* The head of the loop body: clock.tick, the event queue (at most one key
\* event a frame), player.update, ms_since_start and the get_busy test.
\* Playback is busy until the music position reaches the end of the song.
TickBegin(dt, event) ==
    /\ pc = "tick"
    /\ running
    /\ event \in {"up", "down"} => keys < MaxKeys
    /\ LET tl == IF event = "up" THEN move_up(target_lane)
                 ELSE IF event = "down" THEN move_down(target_lane)
                 ELSE target_lane
           t == now + dt
           p == PlayerUpdate(tl, start_ticks + t)
           busy == t < num_windows * WINDOW_MS
           idx == get_window_index_for_ms(t)
       IN  /\ target_lane' = tl
           /\ lane' = p[1]
           /\ y' = p[2]
           /\ last_lane_change_ms' = p[3]
           /\ keys' = IF event \in {"up", "down"} THEN keys + 1 ELSE keys
           /\ now' = t
           /\ dtms' = dt
           /\ ratio' \in IF now > 0 /\ idx = get_window_index_for_ms(now)
                         THEN {ratio} ELSE RatiosAt(idx)
           /\ running' = busy
           /\ pc' = IF busy THEN "spawn" ELSE "done"
    /\ obstacles' = [i \in 1..Len(obstacles) |->
                        [obstacles[i] EXCEPT !.x_prev = obstacles[i].x]]
    /\ UNCHANGED <<constVars, last_obstacle_near_ms, recent_high_count, score,
                   obstacles_dodged, collided, last_spawn_ms, last_heavy_ms,
                   ev, nextId, call>>

\* a gate that opens one window after the last spawn
GateOpenAfterWindow(t, last) == t - last >= WINDOW_MS

\* a gate that ignores the last spawn
GateOpenAlways(t, last) == TRUE

\* "if time_since_last >= MIN_SPAWN_INTERVAL_MS"
GateOpen(t, last) == t - last >= MIN_SPAWN_INTERVAL_MS

\* spawn_logic, audio-driven part, when the minimum-interval gate is closed
AudioGateClosed ==
    /\ pc = "spawn"
    /\ ~GateOpen(now, last_spawn_ms)
    /\ ev' = [EvNone EXCEPT !.old = recent_high_count]
    /\ pc' = "boredom"
    /\ UNCHANGED <<constVars, clockVars, ratio, playerVars, gameVars,
                   managerVars, nextId, keys, call>>

\* spawn_logic, audio-driven part, gate open: classification, cooldown, lane
\* count, placement trials, spawn.  hit, lane_count and the trial starts are
\* the random draws; the 8 trials draw a once and then b.
AudioDriven(hit, lane_count, a, b) ==
    /\ pc = "spawn"
    /\ GateOpen(now, last_spawn_ms)
    /\ LET c == Classify(ratio, recent_high_count, hit)
           tier == Cooldown(c.tier, now, last_heavy_ms)
           trials == [i \in 1..TRIALS |-> IF i = 1 THEN a ELSE b]
           lane_start == Place(trials, obstacles, lane_count)
       IN  /\ recent_high_count' = c.streak
           /\ IF tier = "none"
              THEN \* return: the boredom part is skipped as well
                   /\ pc' = "update"
                   /\ UNCHANGED <<managerVars, nextId>>
              ELSE /\ lane_count \in Sizes(tier)
                   /\ a \in StartRange(lane_count)
                   /\ b \in StartRange(lane_count)
                   /\ pc' = "boredom"
                   /\ IF lane_start >= 0
                      THEN /\ Len(obstacles) < env.cap
                           /\ LET m == ManagerSpawn(obstacles, last_heavy_ms,
                                         lane_start, lane_count, now, nextId)
                              IN  /\ obstacles' = m[1]
                                  /\ last_spawn_ms' = m[2]
                                  /\ last_heavy_ms' = m[3]
                           /\ nextId' = nextId + 1
                      ELSE UNCHANGED <<managerVars, nextId>>
           /\ ev' = [gate |-> TRUE, tier |-> c.tier, final |-> tier,
                     old |-> recent_high_count,
                     hit |-> (ratio < LOW_TH /\ hit),
                     lane_count |-> IF tier = "none" THEN 0 ELSE lane_count,
                     tried |-> IF tier = "none" THEN {}
                               ELSE Tried(trials, obstacles, lane_count)]
    /\ UNCHANGED <<constVars, clockVars, ratio, playerVars, running,
                   last_obstacle_near_ms, score, obstacles_dodged, collided,
                   keys, call>>

\* the obstacles the boredom spawn shifts
Conflicting(o, x_pos) ==
    /\ o.x > PLAYER_X
    /\ Abs(o.x - x_pos) * 10 < BORED_TENTHS * OBSTACLE_SPEED

shift_amount == (OBSTACLE_SPEED * SHIFT_TENTHS) \div 10

\* the obstacle list after the boredom part has shifted and appended
BoredomField(obs, l, t, id) ==
    Append([i \in 1..Len(obs) |->
               IF Conflicting(obs[i], SpawnX)
               THEN [obs[i] EXCEPT !.x = @ + shift_amount]
               ELSE obs[i]],
           Obstacle(l, 1, SpawnX, id, "tiny", t))

\* a boredom test that waits for twice the inactive time
BoredomDueLate(t, lane_change_ms, near_ms) ==
    /\ t - lane_change_ms > 2 * INACTIVE_MS
    /\ t - near_ms > QUIET_MS

\* a boredom test that only waits for the quiet time
BoredomDueQuietOnly(t, lane_change_ms, near_ms) == t - near_ms > QUIET_MS

\* "if inactive_time > 500 and quiet_time > 400"
BoredomDue(t, lane_change_ms, near_ms) ==
    /\ t - lane_change_ms > INACTIVE_MS
    /\ t - near_ms > QUIET_MS

\* spawn_logic, boredom part
Boredom ==
    /\ pc = "boredom"
    /\ IF BoredomDue(now, last_lane_change_ms, last_obstacle_near_ms)
       THEN /\ Len(obstacles) < env.cap
            /\ obstacles' = BoredomField(obstacles, lane, now, nextId)
            /\ last_spawn_ms' = now
            /\ last_lane_change_ms' = now
            /\ nextId' = nextId + 1
       ELSE UNCHANGED <<obstacles, last_spawn_ms, last_lane_change_ms, nextId>>
    /\ pc' = "update"
    /\ UNCHANGED <<constVars, clockVars, ratio, lane, target_lane, y, gameVars,
                   last_heavy_ms, ev, keys, call>>

\* an update that prunes and moves nothing
ManagerUpdateNoMove(obs, dt) ==
    LET Kept(o) == o.x + OB_WIDTH > OFFSCREEN
    IN  SelectSeq(obs, Kept)

\* an update that also keeps an obstacle whose trailing edge is at -50
MoveAndPruneInclusive(obs, px) ==
    LET moved == [i \in 1..Len(obs) |-> [obs[i] EXCEPT !.x = @ - px]]
        Kept(o) == o.x + OB_WIDTH >= OFFSCREEN
    IN  SelectSeq(moved, Kept)

\* ObstacleManager.update for OBSTACLE_SPEED * dt = px pixels: every obstacle
\* moves left by px, then those with x + width > -50 are kept
MoveAndPrune(obs, px) ==
    LET moved == [i \in 1..Len(obs) |-> [obs[i] EXCEPT !.x = @ - px]]
        Kept(o) == o.x + OB_WIDTH > OFFSCREEN
    IN  SelectSeq(moved, Kept)

\* ObstacleManager.update with dt in ms
ManagerUpdate(obs, dt) == MoveAndPrune(obs, (OBSTACLE_SPEED * dt) \div 1000)

\* pygame.Rect as <<left, top, width, height>>.  int(self.x): o.x holds the
\* whole pixels of x (the tenths, where a specification keeps them, are in
\* o.frac and do not reach the rectangle).
ObstacleRect(o) ==
    <<o.x, o.lane_start * LANE_HEIGHT, OB_WIDTH, o.lane_count * LANE_HEIGHT>>

PlayerRect(py) == <<PLAYER_X, py \div 1000, PLAYER_W, PLAYER_HEIGHT>>

\* colliderect that also counts rectangles that only touch
colliderectTouching(r, q) ==
    /\ r[1] <= q[1] + q[3]
    /\ q[1] <= r[1] + r[3]
    /\ r[2] <= q[2] + q[4]
    /\ q[2] <= r[2] + r[4]

\* pygame.Rect.colliderect
colliderect(r, q) ==
    /\ r[1] < q[1] + q[3]
    /\ q[1] < r[1] + r[3]
    /\ r[2] < q[2] + q[4]
    /\ q[2] < r[2] + r[4]

check_collision(obs, player_rect) ==
    \E i \in 1..Len(obs) : colliderect(player_rect, ObstacleRect(obs[i]))

\* a lane distance that takes the span to end one lane further down
LaneDistLongSpan(o, player_lane) ==
    LET obstacle_top == o.lane_start
        obstacle_bottom == o.lane_start + o.lane_count
    IN  IF player_lane < obstacle_top THEN obstacle_top - player_lane
        ELSE IF player_lane > obstacle_bottom THEN player_lane - obstacle_bottom
        ELSE 0

\* distance in lanes from player_lane to the span of o
LaneDist(o, player_lane) ==
    LET obstacle_top == o.lane_start
        obstacle_bottom == o.lane_start + o.lane_count - 1
    IN  IF player_lane < obstacle_top THEN obstacle_top - player_lane
        ELSE IF player_lane > obstacle_bottom THEN player_lane - obstacle_bottom
        ELSE 0

\* a test that forgets the passed flag
JustPassedAgain(o) == o.x + OB_WIDTH < PLAYER_X

\* "(not o.passed) and (o.x + o.width < PLAYER_X)"
JustPassed(o) == ~o.passed /\ o.x + OB_WIDTH < PLAYER_X

\* what one obstacle adds to count
Counts(o, player_lane) ==
    IF JustPassed(o) /\ LaneDist(o, player_lane) <= CLOSE_LANES THEN 1 ELSE 0

\* the obstacle list after a mark_passed_and_count that sets no flag
MarkNothing(obs, player_lane) == obs

\* the obstacle list after mark_passed_and_count
MarkPassed(obs, player_lane) ==
    [i \in 1..Len(obs) |->
        IF JustPassed(obs[i])
        THEN [obs[i] EXCEPT !.passed = TRUE,
                            !.hits = @ + Counts(obs[i], player_lane)]
        ELSE obs[i]]

RECURSIVE SumCounts(_, _)
SumCounts(obs, player_lane) ==
    IF obs = <<>> THEN 0
    ELSE Counts(Head(obs), player_lane) + SumCounts(Tail(obs), player_lane)

\* the value mark_passed_and_count returns
mark_passed_and_count(obs, player_lane) == SumCounts(obs, player_lane)

obstacles_near(obs) ==
    \E i \in 1..Len(obs) :
        PLAYER_X < obs[i].x /\ obs[i].x < SCREEN_W + NEAR_AHEAD

\* a loop that goes on after a collision
LoopIgnoresHit(r, hit) == r

\* "if self.ob_manager.check_collision(...): self.running = False", and the
\* test "while self.running" at the head of the next pass
LoopGoesOn(r, hit) == r /\ ~hit

\* The rest of the loop body: ob_manager.update, the near test, the collision
\* test, score, mark_passed_and_count.
TickEnd ==
    /\ pc = "update"
    /\ LET moved == ManagerUpdate(obstacles, dtms)
           hit == check_collision(moved, PlayerRect(y))
       IN  /\ last_obstacle_near_ms' =
                 IF obstacles_near(moved) THEN now ELSE last_obstacle_near_ms
           /\ collided' = hit
           /\ running' = LoopGoesOn(running, hit)
           /\ score' = score + dtms
           /\ obstacles_dodged' =
                 obstacles_dodged + mark_passed_and_count(moved, lane)
           /\ obstacles' = MarkPassed(moved, lane)
           /\ pc' = IF running' THEN "tick" ELSE "done"
    /\ UNCHANGED <<constVars, clockVars, ratio, playerVars, recent_high_count,
                   last_spawn_ms, last_heavy_ms, ev, nextId, keys, call>>

Next ==
    \/ \E dt \in DtChoices, event \in env.events : TickBegin(dt, event)
    \/ AudioGateClosed
    \/ \E hit \in env.hits, lane_count \in env.sizes, a \in env.starts,
          b \in env.starts : AudioDriven(hit, lane_count, a, b)
    \/ Boredom
    \/ TickEnd

Spec == Init /\ [][Next]_vars

SpecLoud == InitLoud /\ [][Next]_vars

SpecLow == InitLow /\ [][Next]_vars

SpecBored == InitBored /\ [][Next]_vars

\* the same loop with the frame times of RunDtChoices.  A frame of 300 ms
\* finds the minimum-interval gate (150 ms) open at every tick, so the
\* closed-gate branch is not a step of this specification.
NextRun ==
    \/ \E dt \in RunDtChoices, event \in env.events : TickBegin(dt, event)
    \/ \E hit \in env.hits, lane_count \in env.sizes, a \in env.starts,
          b \in env.starts : AudioDriven(hit, lane_count, a, b)
    \/ Boredom
    \/ TickEnd

SpecRun == InitRun /\ [][NextRun]_vars

\* ------------------------------------------------ Game.run, without end
\* SpecStall follows the loop for as long as it runs, playback never ending.
\* Every test of the loop reads a difference of two times (current_ms minus
\* a timestamp), so the states are kept up to a shift of the time origin: at
\* the end of a tick the origin moves to current_ms.  A timestamp that lies
\* further back than NEVER_MS stays there; no test of the loop looks further
\* back than HEAVY_COOLDOWN_MS.  The score, which is the time played, moves
\* with the origin; the dodged count, which nothing reads, is not kept; and
\* the serial number of the next obstacle is the least one such that it and
\* its successor are not in the field.
ShiftOrigin(t, by) == Max(t - by, NEVER_MS)

FreeId(obs) ==
    CHOOSE k \in 1..(2 * Len(obs) + 1) :
        /\ \A i \in 1..Len(obs) : obs[i].id \notin {k, k + 1}
        /\ \A j \in 1..(k - 1) :
             \E i \in 1..Len(obs) : obs[i].id \in {j, j + 1}

\* The rest of the loop body, as TickEnd, followed by the shift of the origin
StallTickEnd ==
    /\ pc = "update"
    /\ LET moved == ManagerUpdate(obstacles, dtms)
           hit == check_collision(moved, PlayerRect(y))
           marked == MarkPassed(moved, lane)
       IN  /\ last_obstacle_near_ms' =
                 ShiftOrigin(IF obstacles_near(moved) THEN now
                             ELSE last_obstacle_near_ms, now)
           /\ collided' = hit
           /\ running' = LoopGoesOn(running, hit)
           /\ obstacles' =
                 [i \in 1..Len(marked) |->
                     [marked[i] EXCEPT !.born = ShiftOrigin(@, now)]]
           /\ nextId' = FreeId(marked)
           /\ pc' = IF running' THEN "tick" ELSE "done"
    /\ last_spawn_ms' = ShiftOrigin(last_spawn_ms, now)
    /\ last_heavy_ms' = ShiftOrigin(last_heavy_ms, now)
    /\ last_lane_change_ms' = ShiftOrigin(last_lane_change_ms, now)
    /\ now' = 0
    /\ UNCHANGED <<constVars, dtms, ratio, lane, target_lane, y,
                   recent_high_count, score, obstacles_dodged, ev, keys, call>>

\* A frame of 550 ms finds the minimum-interval gate open at every tick.
NextStall ==
    \/ \E dt \in StallDtChoices, event \in env.events : TickBegin(dt, event)
    \/ \E hit \in env.hits, lane_count \in env.sizes, a \in env.starts,
          b \in env.starts : AudioDriven(hit, lane_count, a, b)
    \/ Boredom
    \/ StallTickEnd

SpecStall == InitStall /\ [][NextStall]_vars

\* The loop is a single thread that runs its body again while self.running
\* holds: a step of the loop that can be taken is taken.
SpecStallFair == SpecStall /\ WF_vars(NextStall)

\* ------------------------------------------- ObstacleManager, on its own
\* SpecField calls the methods of one ObstacleManager in any order: spawn,
\* update with a frame time, mark_passed_and_count with any player lane.
\* The manager has no clock of its own (update does not read its
\* current_time_ms); every spawn is given the time 0.  call records the
\* method, its lane argument and its result.
InitField == InitWith(EnvAll, ShortSong, "field")

FieldSpawn(lane_start, lane_count) ==
    /\ pc = "field"
    /\ nextId <= MaxFieldSpawns
    /\ LET m == ManagerSpawn(obstacles, last_heavy_ms, lane_start, lane_count,
                             now, nextId)
       IN  /\ obstacles' = m[1]
           /\ last_spawn_ms' = m[2]
           /\ last_heavy_ms' = m[3]
    /\ nextId' = nextId + 1
    /\ call' = [op |-> "spawn", arg |-> lane_start, ret |-> 0]
    /\ UNCHANGED <<constVars, clockVars, pc, ratio, playerVars, gameVars, ev,
                   keys>>

FieldUpdate(dt) ==
    /\ pc = "field"
    /\ obstacles # <<>>
    /\ obstacles' = ManagerUpdate(obstacles, dt)
    /\ call' = [op |-> "update", arg |-> 0, ret |-> 0]
    /\ UNCHANGED <<constVars, clockVars, pc, ratio, playerVars, gameVars, last_spawn_ms,
                   last_heavy_ms, ev, nextId, keys>>

FieldMark(player_lane) ==
    /\ pc = "field"
    /\ obstacles' = MarkPassed(obstacles, player_lane)
    /\ call' = [op |-> "mark", arg |-> player_lane,
                ret |-> mark_passed_and_count(obstacles, player_lane)]
    /\ UNCHANGED <<constVars, clockVars, pc, ratio, playerVars, gameVars,
                   last_spawn_ms, last_heavy_ms, ev, nextId, keys>>

NextField ==
    \/ \E c \in FieldSpawnChoices : FieldSpawn(c[1], c[2])
    \/ \E dt \in FieldDtChoices : FieldUpdate(dt)
    \/ \E player_lane \in 0..(LANES - 1) : FieldMark(player_lane)

SpecField == InitField /\ [][NextField]_vars

\* SpecPrune calls spawn and update only.  update takes dt as a float number
\* of seconds; here the call is given by the distance OBSTACLE_SPEED * dt it
\* moves the obstacles, in pixels.  call records that distance and the x of
\* the obstacles the call removed.
PruneUpdate(px) ==
    /\ pc = "field"
    /\ obstacles # <<>>
    /\ obstacles' = MoveAndPrune(obstacles, px)
    /\ call' = [op |-> "update", arg |-> px,
                ret |-> {o.x - px : o \in {q \in Range(obstacles) :
                            \A k \in Range(obstacles') : k.id # q.id}}]
    /\ UNCHANGED <<constVars, clockVars, pc, ratio, playerVars, gameVars,
                   last_spawn_ms, last_heavy_ms, ev, nextId, keys>>

NextPrune ==
    \/ \E c \in FieldSpawnChoices : FieldSpawn(c[1], c[2])
    \/ \E px \in PruneMoveChoices : PruneUpdate(px)

SpecPrune == InitField /\ [][NextPrune]_vars

\* --------------------------------------------------- Player, on its own
\* SpecPlayer calls move_up, move_down and update on a fresh Player in any
\* order.  The harness has no clock: get_ticks() is read as 0.  call
\* records a move, the target lane it found and the one it left.
InitPlayer == InitWith(EnvAll, ShortSong, "player")

playerRest == <<constVars, clockVars, pc, ratio, gameVars, managerVars, ev,
                nextId>>

PlayerMoveUp ==
    /\ pc = "player"
    /\ keys < MaxMoves
    /\ target_lane' = move_up(target_lane)
    /\ keys' = keys + 1
    /\ call' = [op |-> "move_up", arg |-> target_lane,
                ret |-> move_up(target_lane)]
    /\ UNCHANGED <<playerRest, lane, y, last_lane_change_ms>>

PlayerMoveDown ==
    /\ pc = "player"
    /\ keys < MaxMoves
    /\ target_lane' = move_down(target_lane)
    /\ keys' = keys + 1
    /\ call' = [op |-> "move_down", arg |-> target_lane,
                ret |-> move_down(target_lane)]
    /\ UNCHANGED <<playerRest, lane, y, last_lane_change_ms>>

PlayerStep ==
    /\ pc = "player"
    /\ LET p == PlayerUpdate(target_lane, now)
       IN  /\ lane' = p[1]
           /\ y' = p[2]
           /\ last_lane_change_ms' = p[3]
    /\ UNCHANGED <<playerRest, target_lane, keys, call>>

NextPlayer == PlayerMoveUp \/ PlayerMoveDown \/ PlayerStep

SpecPlayer == InitPlayer /\ [][NextPlayer]_vars

\* ------------------------------------------ check_collision, on its own
\* SpecCollide calls check_collision for a player at rest in any lane and a
\* field of one or two obstacles that have travelled to the player's x.
\* x is a float in the program (it moves by 0.3 px per ms); here an
\* obstacle carries its whole pixels in x and its tenths in frac.  call
\* records the player's lane and the result (1 for True).
CollideObstacles ==
    {[lane_start |-> sp[1], lane_count |-> sp[2], x |-> x, frac |-> f,
      passed |-> FALSE, id |-> 1, kind |-> "energy", born |-> 0, hits |-> 0,
      x_prev |-> x] :
        sp \in CollideSpans, x \in CollideX, f \in CollideFrac}

CollideFields ==
    {<<o>> : o \in CollideObstacles}
    \cup {<<o, [q EXCEPT !.id = 2]>> :
             o \in {c \in CollideObstacles : c.x = 59 /\ c.frac = 0},
             q \in {c \in CollideObstacles : c.lane_count = 1}}

InitCollide ==
    \E l \in 0..(LANES - 1), obs \in CollideFields :
        InitState(EnvAll, ShortSong, "collide", l, obs)

CollideCheck ==
    /\ pc = "collide"
    /\ call.op = "none"
    /\ call' = [op |-> "collide", arg |-> lane,
                ret |-> IF check_collision(obstacles, PlayerRect(y))
                        THEN 1 ELSE 0]
    /\ UNCHANGED <<constVars, clockVars, pc, ratio, playerVars, gameVars,
                   managerVars, ev, nextId, keys>>

NextCollide == CollideCheck

SpecCollide == InitCollide /\ [][NextCollide]_vars

\* ------------------------------------------- AudioAnalyzer, on its own
\* SpecAudio builds an AudioAnalyzer over a decoded sample buffer, statement
\* by statement, and then asks it for window indices.
InitAudio == InitWith(EnvAll, 0, "audio")

audioRest == <<env, now, dtms, start_ticks, running, pc, ratio, playerVars,
               last_obstacle_near_ms, recent_high_count, score,
               obstacles_dodged, collided, managerVars, ev, nextId, keys>>

\* "maxv = np.max(np.abs(self.samples)) or 1.0": np.max raises ValueError on
\* an array of size 0, and __init__ ends there
AnalyzerNormalize ==
    /\ pc = "audio"
    /\ analyzer.pc = "load"
    /\ analyzer' =
          IF analyzer.samples = <<>>
          THEN [analyzer EXCEPT !.pc = "failed"]
          ELSE [analyzer EXCEPT !.pc = "normalized",
                                !.maxv = MaxAbs(analyzer.samples)]
    /\ UNCHANGED <<audioRest, num_windows, call>>

\* samples_per_window, num_windows and the np.zeros energy array
AnalyzerWindows ==
    /\ pc = "audio"
    /\ analyzer.pc = "normalized"
    /\ LET spw == SamplesPerWindow(analyzer.sample_rate, WINDOW_MS)
           nw == NumWindows(Len(analyzer.samples), spw)
       IN  /\ num_windows' = nw
           /\ analyzer' = [analyzer EXCEPT !.pc = "sized",
                                           !.samples_per_window = spw,
                                           !.energy = [i \in 1..nw |-> 0]]
    /\ UNCHANGED <<audioRest, call>>

\* self._compute_energy()
AnalyzerEnergy ==
    /\ pc = "audio"
    /\ analyzer.pc = "sized"
    /\ analyzer' =
          [analyzer EXCEPT !.pc = "energy",
               !.energy = compute_energy(analyzer.samples, num_windows,
                                         analyzer.samples_per_window)]
    /\ UNCHANGED <<audioRest, num_windows, call>>

\* self.baseline = self._compute_running_baseline()
AnalyzerBaseline ==
    /\ pc = "audio"
    /\ analyzer.pc = "energy"
    /\ analyzer' =
          [analyzer EXCEPT !.pc = "ready",
               !.baseline = compute_running_baseline(analyzer.energy)]
    /\ UNCHANGED <<audioRest, num_windows, call>>

\* get_window_index_for_ms(ms) on the analyzer
AnalyzerQuery(ms) ==
    /\ pc = "audio"
    /\ analyzer.pc = "ready"
    /\ call' = [op |-> "index", arg |-> ms,
                ret |-> get_window_index_for_ms(ms)]
    /\ UNCHANGED <<audioRest, num_windows, analyzer>>

NextAudio ==
    \/ AnalyzerNormalize
    \/ AnalyzerWindows
    \/ AnalyzerEnergy
    \/ AnalyzerBaseline
    \/ \E ms \in QueryMs : AnalyzerQuery(ms)

SpecAudio == InitAudio /\ [][NextAudio]_vars

TypeOK ==
    /\ pc \in {"tick", "spawn", "boredom", "update", "done", "field", "audio",
              "player", "collide"}
    /\ lane \in 0..(LANES - 1)
    /\ recent_high_count \in 0..STREAK_CAP
    /\ analyzer.pc \in {"off", "load", "failed", "normalized", "sized",
                       "energy", "ready"}
    /\ (pc = "audio") = (analyzer.pc # "off")

\* ------------------------------------------------------------ properties
Obs == Range(obstacles)

\* obstacle o arrives at the player within 0.6 s of obstacle n
SameSlice(o, n) == 10 * Abs(o.x - n.x) < 6 * OBSTACLE_SPEED

\* the lanes covered by the obstacles of the time slice of n, n included
SliceCover(n) == UNION {Span(o) : o \in {q \in Obs : SameSlice(q, n)}}

AllLanes == 0..(LANES - 1)

\* the audio-driven part of the tick in progress has just spawned
EnergySpawned ==
    /\ obstacles # <<>>
    /\ obstacles[Len(obstacles)].kind = "energy"
    /\ obstacles[Len(obstacles)].born = now

\* C1: right after an energy-driven spawn (the audio-driven part of
\* spawn_logic has run, the boredom part has not), the new obstacle and the
\* obstacles within 0.6 s of its arrival time leave at least one lane free.
C1_EnergySpawnLeavesLane ==
    (pc = "boredom" /\ EnergySpawned)
        => SliceCover(obstacles[Len(obstacles)]) # AllLanes

\* an energy-driven spawn into a slice that two older obstacles share, with
\* exactly one lane left free
C1_Witness ==
    /\ pc = "boredom"
    /\ EnergySpawned
    /\ Cardinality({q \in Obs : SameSlice(q, obstacles[Len(obstacles)])}) >= 3
    /\ Cardinality(AllLanes \ SliceCover(obstacles[Len(obstacles)])) = 1

\* C2: when spawn_logic has returned, every obstacle it inserted this tick
\* (energy-driven or boredom) has a free lane in its 0.6 s slice.
C2_NoSpawnBlocksAllLanes ==
    pc = "update"
        => \A n \in Obs : n.born = now => SliceCover(n) # AllLanes


Heavy(o) == o.lane_count >= 4

\* C3: two obstacles of 4 lanes or more are spawned at least 600 ms apart,
\* and a tick whose tier is high after the streak smoothing, less than 600 ms
\* after a heavy spawn, ends with tier medium and spawns no heavy obstacle.
C3_HeavySpacing ==
    /\ \A o, q \in Obs :
          (Heavy(o) /\ Heavy(q) /\ o.id # q.id) => Abs(o.born - q.born) >= 600
    /\ ( /\ pc \in {"boredom", "update"}
         /\ ev.gate
         /\ ev.tier = "high"
         /\ \E q \in Obs : Heavy(q) /\ q.born < now /\ now - q.born < 600 )
       => /\ ev.final = "medium"
          /\ \A o \in Obs : o.born = now => ~Heavy(o)

\* a high tier downgraded by the cooldown, and the medium obstacle it spawned
C3_Witness ==
    /\ pc = "boredom"
    /\ ev.gate
    /\ ev.tier = "high"
    /\ ev.final = "medium"
    /\ EnergySpawned
    /\ \E q \in Obs : Heavy(q) /\ q.born < now /\ now - q.born < 600

\* a whole tick (spawn_logic included) has just ended
AfterTick == pc \in {"tick", "done"} /\ now > 0 /\ score = now

\* C4 as stated: after any tick whose ratio is below HIGH_TH the streak is 0.
C4_StreakZeroAfterNonHigh ==
    (AfterTick /\ ratio < HIGH_TH) => recent_high_count = 0

\* C4, amended: after a tick whose ratio is below HIGH_TH the streak is 0 if
\* the tick passed the interval gate and chose a tier (ratio >= LOW_TH, or
\* the 5% draw hit); otherwise the tick left the streak as it was.
C4_StreakResetWhenClassified ==
    (AfterTick /\ ratio < HIGH_TH)
        => IF ev.gate /\ (ratio >= LOW_TH \/ ev.tier # "none")
           THEN recent_high_count = 0
           ELSE recent_high_count = ev.old

\* a non-high tick that reset a positive streak
C4_Witness ==
    /\ AfterTick
    /\ ratio < HIGH_TH
    /\ ev.gate
    /\ ev.tier # "none"
    /\ ev.old > 0
    /\ recent_high_count = 0

\* the minimum-interval gate, from the spawn times of the obstacles
IntervalElapsed == \A o \in Obs : now - o.born >= 150

C6_AllSpawnsSpaced ==
    env.ratios = {LOW_TH}
        => \A o, q \in Obs : o.id # q.id => Abs(o.born - q.born) >= 150

\* C6, amended: with ratio = LOW_TH on every tick, every energy-driven
\* obstacle is spawned at least 150 ms after every obstacle spawned before
\* it; a boredom obstacle may follow another spawn sooner.
C6_EnergySpawnsSpaced ==
    env.ratios = {LOW_TH}
        => \A o, q \in Obs :
              (q.kind = "energy" /\ o.id < q.id) => q.born - o.born >= 150

\* energy-driven spawns exactly 150 ms apart, one of them after a boredom
\* spawn
C6_Witness ==
    /\ env.ratios = {LOW_TH}
    /\ \E o, q \in Obs :
          o.kind = "tiny" /\ q.kind = "energy" /\ q.born - o.born = 150
    /\ \E o, q \in Obs :
          o.kind = "energy" /\ q.kind = "energy" /\ q.born - o.born = 150

\* C7: on a tick that passes the gate with ratio >= HIGH_TH, the tier before
\* the cooldown is high, medium or low for an old streak of 0, 1 or more, and
\* the streak becomes min(old + 1, 4).
C7_StreakSmoothing ==
    (pc \in {"boredom", "update"} /\ ev.gate /\ ratio >= HIGH_TH)
        => /\ ev.tier = IF ev.old = 0 THEN "high"
                        ELSE IF ev.old = 1 THEN "medium" ELSE "low"
           /\ recent_high_count = IF ev.old < 3 THEN ev.old + 1 ELSE 4

\* a high tick at the cap: the streak was 4 and stays 4, the search failed
C7_Witness ==
    /\ pc = "boredom"
    /\ ev.gate
    /\ ratio >= HIGH_TH
    /\ ev.old = 4
    /\ recent_high_count = 4
    /\ ev.tier = "low"
    /\ ~EnergySpawned

\* C8: an obstacle that is marked passed stays passed, and no later call of
\* mark_passed_and_count counts it: it is counted in at most one call.
C8_PassedOnce ==
    [][\A o \in Obs : \A q \in Range(obstacles') :
          q.id = o.id =>
             /\ o.passed => (q.passed /\ q.hits = o.hits)
             /\ q.hits <= 1]_vars

\* a call that returns 0 over an obstacle an earlier call has counted
C8_Witness ==
    /\ call.op = "mark"
    /\ call.ret = 0
    /\ \E o \in Obs : o.passed /\ o.hits = 1 /\ LaneDist(o, call.arg) = 0

\* the distance in lanes from lane l to the nearest lane of o
NearestLaneGap(o, l) ==
    CHOOSE d \in 0..LANES :
        /\ \E k \in Span(o) : Abs(k - l) = d
        /\ \A k \in Span(o) : Abs(k - l) >= d

\* C9: the call of mark_passed_and_count that first finds an obstacle behind
\* the player marks it passed, and counts it exactly when the player's lane
\* is within 1 lane of its span; the result is the number counted; an
\* obstacle already passed is not counted.  Lanes 4-5: lane 5 counts, 8 not.
C9_CountsWithinOneLane ==
    [][call'.op = "mark" =>
          /\ Len(obstacles') = Len(obstacles)
          /\ \A i \in 1..Len(obstacles) :
                LET o == obstacles[i]
                    q == obstacles'[i]
                    behind == ~o.passed /\ o.x + 40 < PLAYER_X
                    near == NearestLaneGap(o, call'.arg) <= 1
                IN  /\ behind => q.passed
                    /\ q.hits = o.hits + IF behind /\ near THEN 1 ELSE 0
                    /\ (behind /\ o.lane_start = 4 /\ o.lane_count = 2) =>
                          /\ call'.arg = 5 => q.hits = 1
                          /\ call'.arg = 8 => q.hits = 0
          /\ call'.ret =
                Cardinality({i \in 1..Len(obstacles) :
                    /\ ~obstacles[i].passed
                    /\ obstacles[i].x + 40 < PLAYER_X
                    /\ NearestLaneGap(obstacles[i], call'.arg) <= 1})]_vars

\* two obstacles on lanes 4-5: one counted from lane 5, the other just
\* marked from lane 8 and not counted
C9_Witness ==
    /\ call = [op |-> "mark", arg |-> 8, ret |-> 0]
    /\ \E o, q \in Obs :
          /\ o.lane_start = 4 /\ o.lane_count = 2 /\ o.passed /\ o.hits = 1
          /\ q.lane_start = 4 /\ q.lane_count = 2 /\ q.passed /\ q.hits = 0
          /\ q.id > o.id

\* C10: every obstacle of the field has at least one lane and lies within
\* lanes 0 .. LANES-1.
C10_ObstacleInLanes ==
    \A o \in Obs :
        o.lane_count >= 1 /\ 0 <= o.lane_start
            /\ o.lane_start + o.lane_count <= LANES

\* a boredom obstacle next to an energy-driven one that ends on the last lane
C10_Witness ==
    /\ \E o \in Obs : o.kind = "tiny"
    /\ \E o \in Obs :
          o.kind = "energy" /\ o.lane_start + o.lane_count = LANES

\* C11: in every reachable state the streak of high ticks is an integer
\* between 0 and 4.
C11_StreakInRange ==
    recent_high_count \in Int /\ 0 <= recent_high_count /\ recent_high_count <= 4

\* a tick that found the streak at 4, with ratio >= HIGH_TH, has ended
C11_Witness ==
    /\ AfterTick
    /\ ev.gate
    /\ ratio >= HIGH_TH
    /\ ev.old = 4
    /\ recent_high_count = 4

\* what ObstacleManager.update takes from x in the tick that has just ended
TickMove == (OBSTACLE_SPEED * dtms) \div 1000

\* the boredom part spawned in the tick that has just ended
TinySpawned == \E o \in Obs : o.kind = "tiny" /\ o.born = now

\* o, as the previous tick left it, was within 0.4 s of the spawn edge
NearSpawnEdge(o) ==
    /\ o.x_prev > PLAYER_X
    /\ 10 * Abs(o.x_prev - (SCREEN_W + SPAWN_AHEAD_PIXELS)) < 4 * OBSTACLE_SPEED

\* C12 as stated: from one tick to the next the x of an obstacle never
\* increases; it decreases by OBSTACLE_SPEED * dt.
C12_XNeverIncreases ==
    AfterTick =>
        \A o \in Obs :
            o.born < now => (o.x <= o.x_prev /\ o.x = o.x_prev - TickMove)

\* C12, amended: over a tick the x of an obstacle decreases by
\* OBSTACLE_SPEED * dt, except that a boredom spawn of the tick first adds
\* 180 px to every other obstacle that was within 0.4 s of the spawn edge;
\* without a boredom spawn no x increases.
C12_XMovesLeftUnlessShifted ==
    AfterTick =>
        \A o \in Obs :
            LET shifted == /\ TinySpawned
                           /\ ~(o.kind = "tiny" /\ o.born = now)
                           /\ NearSpawnEdge(o)
            IN  o.x = o.x_prev - TickMove + IF shifted THEN 180 ELSE 0

\* a tick has ended that shifted one obstacle right and moved another left
C12_Witness ==
    /\ AfterTick
    /\ \E o \in Obs : o.born < now /\ o.x > o.x_prev
    /\ \E o \in Obs : o.born < now /\ o.x < o.x_prev

\* the obstacles of the field that the step removes
Removed(o) == \A k \in Range(obstacles') : k.id # o.id

C14_EmptyBufferBuilds ==
    (pc = "audio" /\ analyzer.samples = <<>>)
        => /\ analyzer.pc # "failed"
           /\ (analyzer.pc = "ready"
               => /\ num_windows = 1
                  /\ analyzer.energy = <<0>>
                  /\ Len(analyzer.baseline) = 1)

\* the sum of e[lo..hi], taken directly
RECURSIVE SumRange(_, _, _)
SumRange(e, lo, hi) == IF lo > hi THEN 0 ELSE e[hi] + SumRange(e, lo, hi - 1)

\* the first window (from 1) of the baseline span that ends at window i
SpanStart(i) == Max(1, i - ENERGY_BASELINE_BUFFER + 1)

\* C15: once the analyzer is built, the baseline of every window i is the
\* arithmetic mean of the energies of the last ENERGY_BASELINE_BUFFER windows
\* up to i (of all windows from the first while fewer have been seen): its
\* numerator is their sum and its denominator their number.
C15_BaselineIsWindowMean ==
    (pc = "audio" /\ analyzer.pc = "ready")
        => /\ Len(analyzer.baseline) = num_windows
           /\ \A i \in 1..num_windows :
                /\ analyzer.baseline[i].n = i - SpanStart(i) + 1
                /\ analyzer.baseline[i].sum =
                       SumRange(analyzer.energy, SpanStart(i), i)

\* a song of more windows than the buffer holds, whose first window is not
\* silent: the last baseline has dropped it
C15_Witness ==
    /\ pc = "audio"
    /\ analyzer.pc = "ready"
    /\ num_windows > ENERGY_BASELINE_BUFFER
    /\ analyzer.energy[1] > 0
    /\ analyzer.baseline[num_windows].n = ENERGY_BASELINE_BUFFER
    /\ analyzer.baseline[num_windows].sum
           < SumRange(analyzer.energy, 1, num_windows)

\* the window index the analyzer gives for timestamp ms
IndexOf(ms) == get_window_index_for_ms(ms)

\* C16: get_window_index_for_ms returns an index in [0, num_windows - 1] for
\* every timestamp, negative and past-the-end ones included, and a later
\* timestamp never gets a smaller index.
C16_IndexInRangeMonotone ==
    (pc = "audio" /\ analyzer.pc = "ready")
        => /\ call.op = "index" => call.ret \in 0..(num_windows - 1)
           /\ \A a \in QueryMs : \A b \in QueryMs :
                a <= b => IndexOf(a) <= IndexOf(b)

\* a negative timestamp answered with window 0 of a song of several windows,
\* whose last window also answers a timestamp past the end
C16_Witness ==
    /\ pc = "audio"
    /\ analyzer.pc = "ready"
    /\ num_windows > 1
    /\ call.op = "index"
    /\ call.arg < -WINDOW_MS
    /\ call.ret = 0
    /\ IndexOf(9000) = num_windows - 1
    /\ \E a \in QueryMs : IndexOf(a) \notin {0, num_windows - 1}

\* ceil(len / spw) for len > 0, taken directly: the least number of windows
\* of spw samples that hold len samples
WindowsNeeded(len, spw) ==
    CHOOSE k \in 1..len : k * spw >= len /\ (k - 1) * spw < len

\* C17: for every sample buffer the analyzer is built, with num_windows =
\* max(1, ceil(len(samples) / samples_per_window)) and with energy and
\* baseline sequences of exactly num_windows entries.
C17_BuiltWithNumWindows ==
    pc = "audio"
        => /\ analyzer.pc # "failed"
           /\ analyzer.pc = "ready"
                => /\ num_windows =
                         IF analyzer.samples = <<>> THEN 1
                         ELSE WindowsNeeded(Len(analyzer.samples),
                                            analyzer.samples_per_window)
                   /\ Len(analyzer.energy) = num_windows
                   /\ Len(analyzer.baseline) = num_windows

\* C18: after any sequence of move_up, move_down and update calls the
\* player's target lane and lane are both in [0, LANES - 1]; move_up at lane 0
\* and move_down at lane LANES - 1 leave the target lane as it was.
C18_LanesInRange ==
    pc = "player"
        => /\ target_lane \in 0..(LANES - 1)
           /\ lane \in 0..(LANES - 1)
           /\ (call.op = "move_up" /\ call.arg = 0) => call.ret = 0
           /\ (call.op = "move_down" /\ call.arg = LANES - 1)
                  => call.ret = LANES - 1

\* the player has travelled to lane 0 and move_up is called there
C18_Witness ==
    /\ pc = "player"
    /\ lane = 0
    /\ y = lane_to_y(0)
    /\ call.op = "move_up"
    /\ call.arg = 0
    /\ target_lane = 0

\* C19: when the boredom part of spawn_logic has spawned, no other obstacle
\* arrives within 0.4 s of the new tiny obstacle: the x of every other
\* obstacle differs from the spawn x by at least 0.4 * OBSTACLE_SPEED.
C19_NoObstacleNearTiny ==
    (pc = "update" /\ TinySpawned)
        => \A o \in Obs :
             (o.kind # "tiny" \/ o.born # now)
                 => 10 * Abs(o.x - (SCREEN_W + SPAWN_AHEAD_PIXELS))
                        >= BORED_TENTHS * OBSTACLE_SPEED

\* the step is the audio-driven part of spawn_logic on a tick that passes
\* the interval gate with a ratio below LOW_TH and whose 5% draw misses
QuietMiss == pc = "spawn" /\ ev'.gate /\ ratio < LOW_TH /\ ~ev'.hit

\* C20: on a tick that passes the gate with ratio < LOW_TH and the 5% draw
\* missing, spawn_logic does nothing: it returns before the boredom part, no
\* obstacle is added or shifted, and last_spawn_ms, last_heavy_ms and the
\* player's last_lane_change_ms keep their values.
C20_QuietMissDoesNothing ==
    [][QuietMiss
         => /\ pc' = "update"
            /\ obstacles' = obstacles
            /\ last_spawn_ms' = last_spawn_ms
            /\ last_heavy_ms' = last_heavy_ms
            /\ last_lane_change_ms' = last_lane_change_ms]_vars

\* spawn_logic has returned on a quiet miss with obstacles in the field, at a
\* time when the boredom part, had it been evaluated, would have spawned
C20_Witness ==
    /\ pc = "update"
    /\ ev.gate
    /\ ratio < LOW_TH
    /\ ~ev.hit
    /\ ev.tier = "none"
    /\ obstacles # <<>>
    /\ now - last_lane_change_ms > INACTIVE_MS
    /\ now - last_obstacle_near_ms > QUIET_MS
    /\ ~TinySpawned

\* C21: a tick on which the minimum-interval gate fails still runs the
\* boredom check (the audio-driven part changes nothing and goes on to it),
\* and on such a tick, when the player has not changed lane for more than
\* 500 ms and no obstacle has been near for more than 400 ms, the check
\* appends exactly one obstacle: one lane wide, at the spawn edge, in the
\* player's current lane.
C21_BoredomRunsWhenGateFails ==
    [][/\ (pc = "spawn" /\ now - last_spawn_ms < MIN_SPAWN_INTERVAL_MS)
           => (pc' = "boredom" /\ obstacles' = obstacles)
       /\ (/\ pc = "boredom"
           /\ ~ev.gate
           /\ now - last_lane_change_ms > INACTIVE_MS
           /\ now - last_obstacle_near_ms > QUIET_MS)
           => /\ Len(obstacles') = Len(obstacles) + 1
              /\ LET tiny == obstacles'[Len(obstacles')]
                 IN  /\ tiny.lane_start = lane
                     /\ tiny.lane_count = 1
                     /\ tiny.x = SCREEN_W + SPAWN_AHEAD_PIXELS
                     /\ \A i \in 1..Len(obstacles) :
                          obstacles'[i].id = obstacles[i].id]_vars

\* the gate has failed on this tick and the boredom check has spawned into a
\* field that holds energy-driven obstacles
C21_Witness ==
    /\ pc = "update"
    /\ ~ev.gate
    /\ now - last_spawn_ms = 0
    /\ TinySpawned
    /\ \E o \in Obs : o.kind = "energy"
    /\ obstacles[Len(obstacles)].lane_start = lane

\* the obstacles the boredom part has spawned
Tinies == {o \in Obs : o.kind = "tiny"}

\* C22: after a boredom spawn at time t no further boredom spawn occurs at a
\* tick time <= t + 500 ms (any two boredom spawns of a run are more than
\* 500 ms apart), and when spawn_logic returns from a boredom spawn both
\* last_spawn_ms and the player's last_lane_change_ms are t.
C22_BoredomNoRetrigger ==
    /\ \A o \in Tinies : \A n \in Tinies :
         o.born < n.born => n.born - o.born > INACTIVE_MS
    /\ (pc = "update" /\ TinySpawned)
           => (last_spawn_ms = now /\ last_lane_change_ms = now)

\* the second boredom spawn of a run, at the first tick past t + 500 ms
C22_Witness ==
    /\ pc = "update"
    /\ TinySpawned
    /\ \E o \in Tinies : now - o.born \in (INACTIVE_MS + 1)..(INACTIVE_MS + 50)
    /\ last_lane_change_ms = now

\* the lane counts of a final tier, as the specification lists them
TierSet(tier) ==
    IF tier = "low" THEN {1, 2}
    ELSE IF tier = "medium" THEN {2, 3}
    ELSE IF tier = "high" THEN {4, 5, 6}
    ELSE {}

\* C23: every energy-driven spawn has a lane count of its final tier's set
\* (low {1,2}, medium {2,3}, high {4,5,6}); an energy-driven obstacle of 4 or
\* more lanes is spawned only on a tick with ratio >= HIGH_TH, a streak of 0
\* before the tick and at least HEAVY_COOLDOWN_MS since last_heavy_ms.
C23_LaneCountOfFinalTier ==
    [][(pc = "spawn" /\ Len(obstacles') = Len(obstacles) + 1)
         => LET new == obstacles'[Len(obstacles')]
            IN  /\ new.lane_count \in TierSet(ev'.final)
                /\ new.lane_count >= 4
                     => /\ ratio >= HIGH_TH
                        /\ recent_high_count = 0
                        /\ now - last_heavy_ms >= HEAVY_COOLDOWN_MS]_vars

\* a heavy obstacle has been spawned by the audio-driven part, in a run that
\* also spawned a lighter one
C23_Witness ==
    /\ pc = "boredom"
    /\ EnergySpawned
    /\ obstacles[Len(obstacles)].lane_count >= 4
    /\ ev.final = "high"
    /\ \E o \in Obs : o.kind = "energy" /\ o.lane_count < 4

\* the lanes held by the obstacles that arrive within 0.6 s of an obstacle
\* put at the spawn edge now
SpawnSliceLanes ==
    UNION {Span(o) : o \in {q \in Obs :
              10 * Abs(q.x - (SCREEN_W + SPAWN_AHEAD_PIXELS))
                  < 6 * OBSTACLE_SPEED}}

\* start s with lane count n leaves no lane of the spawn slice free
StartBlocked(s, n) == SpawnSliceLanes \cup (s .. (s + n - 1)) = AllLanes

\* the step is an energy-driven spawn attempt all of whose trials fail
AllTrialsFail ==
    /\ pc = "spawn"
    /\ ev'.tried # {}
    /\ \A s \in ev'.tried : StartBlocked(s, ev'.lane_count)

\* C24: when all 8 placement trials of an energy-driven spawn attempt fail,
\* the attempt is skipped: the obstacle list, last_spawn_ms and last_heavy_ms
\* are as before and spawn_logic goes on to the boredom check of the tick.
C24_FailedPlacementSkips ==
    [][AllTrialsFail
         => /\ obstacles' = obstacles
            /\ last_spawn_ms' = last_spawn_ms
            /\ last_heavy_ms' = last_heavy_ms
            /\ pc' = "boredom"]_vars

\* a tier was chosen and every start tried was blocked; the boredom check is
\* next
C24_Witness ==
    /\ pc = "boredom"
    /\ ev.gate
    /\ ev.final # "none"
    /\ ev.tried # {}
    /\ \A s \in ev.tried : StartBlocked(s, ev.lane_count)
    /\ ~EnergySpawned

\* the player's lane lies in the lane span of o
LaneInSpan(o) == lane \in Span(o)

\* [x, x + width) of o, x with its tenths, overlaps [PLAYER_X, PLAYER_X + 40)
ExtentOverlaps(o) ==
    /\ 10 * o.x + o.frac < 10 * (PLAYER_X + PLAYER_W)
    /\ 10 * PLAYER_X < 10 * o.x + o.frac + 10 * OB_WIDTH

\* the same for x cut to whole pixels
PixelExtentOverlaps(o) ==
    /\ o.x < PLAYER_X + PLAYER_W
    /\ PLAYER_X < o.x + OB_WIDTH

\* C28 as stated: for a player at rest check_collision reports a collision
\* if and only if some obstacle has the player's lane in its lane span and
\* its horizontal extent [x, x + width) overlaps [PLAYER_X, PLAYER_X + 40).
C28_CollisionIffOverlap ==
    (pc = "collide" /\ call.op = "collide")
        => (call.ret = 1
              <=> \E o \in Obs : LaneInSpan(o) /\ ExtentOverlaps(o))

\* C28, amended: for a player at rest check_collision reports a collision if
\* and only if some obstacle has the player's lane in its lane span and its
\* horizontal extent from int(x), [int(x), int(x) + width), overlaps
\* [PLAYER_X, PLAYER_X + 40); a resting player in a lane outside every span
\* never collides.
C28_CollisionIffPixelOverlap ==
    (pc = "collide" /\ call.op = "collide")
        => /\ call.ret = 1
                <=> \E o \in Obs : LaneInSpan(o) /\ PixelExtentOverlaps(o)
           /\ (\A o \in Obs : ~LaneInSpan(o)) => call.ret = 0

\* a collision with an obstacle whose span ends at the player's lane, beside
\* an obstacle in the player's lane that does not reach the player's x
C28_Witness ==
    /\ pc = "collide"
    /\ call.op = "collide"
    /\ call.ret = 1
    /\ \E o \in Obs : o.lane_start + o.lane_count - 1 = lane /\ o.x = 61
    /\ \E o \in Obs : LaneInSpan(o) /\ ~PixelExtentOverlaps(o)

\* a tick of the loop has run to its end (the loop goes on or has ended there)
TickDone == pc \in {"tick", "done"} /\ now > 0

\* C25: at the end of every tick an obstacle of the field has passed = true
\* if and only if its trailing edge is behind the player, x + width <
\* PLAYER_X: the flag is set in the tick the trailing edge crosses PLAYER_X
\* and a passed obstacle is never back at x + width >= PLAYER_X.
C25_PassedIffBehind ==
    TickDone
        => \A o \in Obs : o.passed <=> (o.x + OB_WIDTH < PLAYER_X)

\* the trailing edge of an obstacle has crossed PLAYER_X in the tick that
\* has just ended, the loop goes on and a younger obstacle is still ahead
C25_Witness ==
    /\ pc = "tick"
    /\ now > 0
    /\ \E o \in Obs : o.passed /\ o.x_prev + OB_WIDTH >= PLAYER_X
    /\ \E o \in Obs : ~o.passed /\ o.x > PLAYER_X

\* C26: collision is terminal.  The tick that detects a collision is the
\* last one: it leaves the loop ended (running false), and no step is ever
\* taken from a state in which a collision has been detected, so no obstacle
\* is spawned or advanced and score and dodged count stay as that tick left
\* them.
C26_CollisionTerminal ==
    [][/\ ~collided
       /\ collided' => (pc' = "done" /\ ~running')]_vars

\* a collision has ended the loop while the song still plays and an obstacle
\* is still on its way to the player
C26_Witness ==
    /\ collided
    /\ pc = "done"
    /\ now + dtms < num_windows * WINDOW_MS
    /\ \E o \in Obs : ~o.passed /\ o.x > PLAYER_X + PLAYER_W
    /\ score = now

\* ---------------------------------------------------------------- C27
\* ObstacleManager.spawn appends and ObstacleManager.update filters, so the
\* field is in the order of insertion and its first obstacle is the oldest.
\* Every obstacle of the field is removed at some time if and only if the
\* oldest one always is, an obstacle having finitely many older ones before
\* it: that is, if and only if the field is empty again and again or its
\* oldest obstacle is removed again and again.
OldestRemoved ==
    /\ obstacles # <<>>
    /\ \A k \in 1..Len(obstacles') : obstacles'[k].id # obstacles[1].id

\* C27: while the tick loop keeps running, every obstacle that is in the
\* field is removed from it at some later time; no obstacle is pushed back by
\* the shifts of the boredom spawn for ever.
C27_EveryObstacleRemoved ==
    ([]<><<StallTickEnd>>_vars) =>
        ([]<>(obstacles = <<>>) \/ []<><<OldestRemoved>>_vars)

====
